---- MODULE Spec2Model ----
(***************************************************************************)
(* A model of btcc.py, a line preprocessor for bpftrace scripts:           *)
(* %define constants, %macro/%end function macros and %call expansion.     *)
(* Text is modelled as strings, character by character, so that the        *)
(* regular expressions, the hygiene renaming and the literal constant      *)
(* substitution are computed the way the program computes them.            *)
(***************************************************************************)
EXTENDS Integers, Sequences, FiniteSets, TLC

(***************************************************************************)
(* Characters and the string helpers of Python that the program uses.      *)
(***************************************************************************)
\* s[i-1:i] of Python: the character at 1-based index i, "" outside the string
Ch(s, i) == IF i >= 1 /\ i <= Len(s) THEN SubSeq(s, i, i) ELSE ""

\* \s of re and the whitespace of str.strip, within ASCII
Space == {" ", "\t", "\n", "\r", "\f"}

Digit == {"0", "1", "2", "3", "4", "5", "6", "7", "8", "9"}

Lower == {"a", "b", "c", "d", "e", "f", "g", "h", "i", "j", "k", "l", "m",
          "n", "o", "p", "q", "r", "s", "t", "u", "v", "w", "x", "y", "z"}

Upper == {"A", "B", "C", "D", "E", "F", "G", "H", "I", "J", "K", "L", "M",
          "N", "O", "P", "Q", "R", "S", "T", "U", "V", "W", "X", "Y", "Z"}

\* [_a-zA-Z]
IdStart == Lower \cup Upper \cup {"_"}

\* [_a-zA-Z0-9]
IdChar == IdStart \cup Digit

\* [\s\$_A-Za-z0-9,]
ListChar == Space \cup IdChar \cup {"$", ","}

\* The first index j >= i of s whose character is not in set C (Len(s)+1 when
\* there is none): where a greedy C* started at i stops.
Skip(s, i, C) ==
    CHOOSE j \in i..(Len(s) + 1) :
        /\ \A k \in i..(j - 1) : Ch(s, k) \in C
        /\ (j = Len(s) + 1 \/ Ch(s, j) \notin C)

\* s[i:] of Python, with 1-based i
From(s, i) == SubSeq(s, i, Len(s))

\* s.startswith(p, i-1)
StartsAt(s, i, p) == i + Len(p) - 1 <= Len(s) /\ SubSeq(s, i, i + Len(p) - 1) = p

\* str.lstrip()
lstrip(s) == From(s, Skip(s, 1, Space))

\* str.rstrip()
rstrip(s) ==
    LET e == CHOOSE j \in 0..Len(s) :
                 /\ \A k \in (j + 1)..Len(s) : Ch(s, k) \in Space
                 /\ (j = 0 \/ Ch(s, j) \notin Space)
    IN SubSeq(s, 1, e)

\* str.strip()
strip(s) == lstrip(rstrip(s))

\* "%d" % n
RECURSIVE FmtInt(_)
FmtInt(n) ==
    LET d == CHOOSE c \in Digit : c = ToString(n % 10)
    IN IF n < 10 THEN d ELSE FmtInt(n \div 10) \o d

\* "".join(l)
RECURSIVE Join(_)
Join(l) == IF l = <<>> THEN "" ELSE Head(l) \o Join(Tail(l))

\* s.find(c, i-1) of Python with 1-based i, Len(s)+1 when c does not occur
Find(s, i, c) ==
    CHOOSE j \in i..(Len(s) + 1) :
        /\ \A k \in i..(j - 1) : Ch(s, k) # c
        /\ (j = Len(s) + 1 \/ Ch(s, j) = c)

\* s.split(","): the pieces between the commas, in order
RECURSIVE Split(_)
Split(s) ==
    LET j == Find(s, 1, ",")
    IN IF j > Len(s) THEN <<s>>
       ELSE <<SubSeq(s, 1, j - 1)>> \o Split(From(s, j + 1))

NoMatch == [ok |-> FALSE]

(***************************************************************************)
(* The regular expressions.  Each operator matches the way re.match does   *)
(* on the pattern in the source and returns the groups the program reads.  *)
(***************************************************************************)
\* RE_PARAM = ^\$[_a-zA-Z][_a-zA-Z0-9]*$
RE_PARAM(arg) ==
    /\ Len(arg) >= 2
    /\ Ch(arg, 1) = "$"
    /\ Ch(arg, 2) \in IdStart
    /\ \A k \in 3..Len(arg) : Ch(arg, k) \in IdChar

\* RE_MACRO_START = ^\s*%macro\s+([_a-zA-Z][_a-zA-Z0-9]*)\s*\(([\s\$_A-Za-z0-9,]*)\)$
RE_MACRO_START(s) ==
    LET i1 == Skip(s, 1, Space)
        i2 == i1 + 6
        i3 == Skip(s, i2, Space)
        i4 == Skip(s, i3 + 1, IdChar)
        i5 == Skip(s, i4, Space)
        i6 == Skip(s, i5 + 1, ListChar)
    IN IF /\ StartsAt(s, i1, "%macro")
          /\ i3 > i2
          /\ Ch(s, i3) \in IdStart
          /\ Ch(s, i5) = "("
          /\ Ch(s, i6) = ")"
          /\ i6 = Len(s)
       THEN [ok |-> TRUE, name |-> SubSeq(s, i3, i4 - 1), sp |-> SubSeq(s, i5 + 1, i6 - 1)]
       ELSE NoMatch

\* RE_MACRO_END = ^\s*%end$
RE_MACRO_END(s) ==
    LET i1 == Skip(s, 1, Space)
    IN IF StartsAt(s, i1, "%end") /\ i1 + 3 = Len(s) THEN [ok |-> TRUE] ELSE NoMatch

\* RE_MACRO_CALL = ^(\s+)%call\s+([_a-zA-Z][_a-zA-Z0-9]*)\s*\(([\s\$_a-zA-Z0-9,]*)\)\s*;?$
RE_MACRO_CALL(s) ==
    LET i1 == Skip(s, 1, Space)
        i2 == i1 + 5
        i3 == Skip(s, i2, Space)
        i4 == Skip(s, i3 + 1, IdChar)
        i5 == Skip(s, i4, Space)
        i6 == Skip(s, i5 + 1, ListChar)
        i7 == Skip(s, i6 + 1, Space)
    IN IF /\ i1 > 1
          /\ StartsAt(s, i1, "%call")
          /\ i3 > i2
          /\ Ch(s, i3) \in IdStart
          /\ Ch(s, i5) = "("
          /\ Ch(s, i6) = ")"
          /\ (i7 = Len(s) + 1 \/ (i7 = Len(s) /\ Ch(s, i7) = ";"))
       THEN [ok |-> TRUE, indent |-> SubSeq(s, 1, i1 - 1),
             name |-> SubSeq(s, i3, i4 - 1), sp |-> SubSeq(s, i5 + 1, i6 - 1)]
       ELSE NoMatch

\* RE_MACRO_DEFINE = ^\s*%define\s+([_a-zA-Z][_A-Za-z0-9]*)\s+(.+)$
RE_MACRO_DEFINE(s) ==
    LET i1 == Skip(s, 1, Space)
        i2 == i1 + 7
        i3 == Skip(s, i2, Space)
        i4 == Skip(s, i3 + 1, IdChar)
        i5 == Skip(s, i4, Space)
    IN IF /\ StartsAt(s, i1, "%define")
          /\ i3 > i2
          /\ Ch(s, i3) \in IdStart
          /\ i5 > i4
          /\ i5 <= Len(s)
          /\ Find(s, i5, "\n") > Len(s)
       THEN [ok |-> TRUE, name |-> SubSeq(s, i3, i4 - 1), value |-> From(s, i5)]
       ELSE NoMatch

\* RE_SUB_PARAM = \$(?P<var>[_a-zA-Z][_a-zA-Z0-9]*), as RE_SUB_PARAM.finditer(line):
\* the matches from index i on, left to right and not overlapping, each as
\* [start, end, var] with start the 1-based index of "$" and end the index
\* after the last character of the identifier.
RECURSIVE RE_SUB_PARAM(_, _)
RE_SUB_PARAM(line, i) ==
    LET d == Find(line, i, "$")
        e == Skip(line, d + 2, IdChar)
    IN IF d > Len(line) THEN <<>>
       ELSE IF Ch(line, d + 1) \in IdStart
            THEN <<[start |-> d, end |-> e, var |-> SubSeq(line, d + 1, e - 1)]>>
                     \o RE_SUB_PARAM(line, e)
            ELSE RE_SUB_PARAM(line, d + 1)

(***************************************************************************)
(* App.parse_params, App.expand_defines and class Macro.                   *)
(***************************************************************************)
\* The loop of parse_params over the stripped pieces; names is the dict the
\* duplicate test reads.  The program never inserts into it.
RECURSIVE parse_params_loop(_, _, _)
parse_params_loop(args, params, names) ==
    IF args = <<>> THEN [res |-> "ok", params |-> params]
    ELSE LET arg == strip(Head(args))
         IN IF RE_PARAM(arg)
            THEN IF arg \in names
                 THEN [res |-> "duplicated parameter name", params |-> <<>>]
                 ELSE parse_params_loop(Tail(args), Append(params, arg), names)
            ELSE [res |-> "invalid parameter name", params |-> <<>>]

parse_params(sparams) ==
    LET s == strip(sparams)
    IN IF Len(s) = 0 THEN [res |-> "ok", params |-> <<>>]
       ELSE parse_params_loop(Split(s), <<>>, {})

\* str.replace(k, v, 1): the first occurrence of k only
Replace_first(s, k, v) ==
    LET hits == {j \in 1..(Len(s) - Len(k) + 1) : StartsAt(s, j, k)}
        j == CHOOSE h \in hits : \A g \in hits : h <= g
    IN IF hits = {} THEN s
       ELSE SubSeq(s, 1, j - 1) \o v \o From(s, j + Len(k))

\* str.replace(k, v): every non-overlapping occurrence of k, left to right
RECURSIVE Replace(_, _, _)
Replace(s, k, v) ==
    LET hits == {j \in 1..(Len(s) - Len(k) + 1) : StartsAt(s, j, k)}
        j == CHOOSE h \in hits : \A g \in hits : h <= g
    IN IF hits = {} THEN s
       ELSE SubSeq(s, 1, j - 1) \o v \o Replace(From(s, j + Len(k)), k, v)

\* expand_defines as it would be over reversed(defines.items()): the constant
\* inserted last is replaced first
RECURSIVE expand_defines_reversed(_, _)
expand_defines_reversed(line, defines) ==
    IF defines = <<>> THEN line
    ELSE Replace(expand_defines_reversed(line, Tail(defines)), Head(defines).k, Head(defines).v)

\* defines is the dict in insertion order: a sequence of [k, v]
RECURSIVE expand_defines(_, _)
expand_defines(line, defines) ==
    IF defines = <<>> THEN line
    ELSE expand_defines(Replace(line, Head(defines).k, Head(defines).v), Tail(defines))

\* defines[name] = value: an existing key keeps its place in the order
SetDefine(defines, name, value) ==
    IF \E i \in 1..Len(defines) : defines[i].k = name
    THEN [i \in 1..Len(defines) |->
             IF defines[i].k = name THEN [k |-> name, v |-> value] ELSE defines[i]]
    ELSE Append(defines, [k |-> name, v |-> value])

\* Macro.__init__
NewMacro(name, params, verbose) ==
    [name |-> name, params |-> params, verbose |-> verbose, lines |-> <<>>, expand_id |-> 0]

\* Macro.add
add(macro, line) == [macro EXCEPT !.lines = Append(@, line)]

\* Macro._prefix
_prefix(macro) == "__m" \o FmtInt(macro.expand_id) \o "_"

\* The loop of _expand_line over the matches ms: l is the joined list so far
\* and start the 1-based index of the first character not yet copied.
RECURSIVE expand_line_loop(_, _, _, _, _, _)
expand_line_loop(name, line, var_prefix, ms, l, start) ==
    IF ms = <<>>
    THEN IF start <= Len(line) THEN l \o From(line, start) ELSE l
    ELSE LET m == Head(ms)
         IN IF m.var # name
            THEN expand_line_loop(name, line, var_prefix, Tail(ms),
                     l \o SubSeq(line, start, m.start - 1) \o "$" \o var_prefix \o m.var,
                     m.end)
            ELSE expand_line_loop(name, line, var_prefix, Tail(ms), l, start)

\* _expand_line as the replaced line 96 had it: every reference is renamed
expand_line_all(macro, line, var_prefix) ==
    expand_line_loop("", line, var_prefix, RE_SUB_PARAM(line, 1), "", 1)

\* _expand_line as it would be if only the formal parameters were renamed
expand_line_params_only(macro, line, var_prefix) ==
    LET ms == RE_SUB_PARAM(line, 1)
        formal == {i \in 1..Len(ms) : \E p \in 1..Len(macro.params) : macro.params[p] = "$" \o ms[i].var}
        keep == [i \in 1..Len(ms) |-> IF i \in formal THEN ms[i] ELSE [ms[i] EXCEPT !.var = macro.name]]
    IN expand_line_loop(macro.name, line, var_prefix, keep, "", 1)

\* Macro._expand_line
_expand_line(macro, line, var_prefix) ==
    expand_line_loop(macro.name, line, var_prefix, RE_SUB_PARAM(line, 1), "", 1)

\* expand's text as it would be if the binding statements assigned the formal
\* parameters themselves, without var_prefix
expand_text_binds_formal(macro, args, call_line, indent) ==
    LET var_prefix == _prefix(macro)
        n == IF Len(macro.params) <= Len(args) THEN Len(macro.params) ELSE Len(args)
        begin == IF macro.verbose
                 THEN "\n" \o indent \o "// BEGIN: " \o strip(call_line) \o "\n"
                 ELSE ""
        binds == [i \in 1..n |-> indent \o macro.params[i] \o " = " \o args[i] \o ";\n"]
        body == [i \in 1..Len(macro.lines) |-> _expand_line(macro, macro.lines[i], var_prefix)]
        end == IF macro.verbose
               THEN indent \o "// END: " \o strip(call_line) \o "\n"
               ELSE ""
    IN begin \o Join(binds) \o Join(body) \o end

\* Macro.expand: the text it returns; the caller has checked the argument count
expand_text(macro, args, call_line, indent) ==
    LET var_prefix == _prefix(macro)
        n == IF Len(macro.params) <= Len(args) THEN Len(macro.params) ELSE Len(args)
        begin == IF macro.verbose
                 THEN "\n" \o indent \o "// BEGIN: " \o strip(call_line) \o "\n"
                 ELSE ""
        binds == [i \in 1..n |->
                     indent \o Ch(macro.params[i], 1) \o var_prefix
                         \o From(macro.params[i], 2) \o " = " \o args[i] \o ";\n"]
        body == [i \in 1..Len(macro.lines) |-> _expand_line(macro, macro.lines[i], var_prefix)]
        end == IF macro.verbose
               THEN indent \o "// END: " \o strip(call_line) \o "\n"
               ELSE ""
    IN begin \o Join(binds) \o Join(body) \o end

\* expand as it would be if the counter were never incremented
expand_keeps_id(macro, args, call_line, indent) ==
    IF Len(macro.params) # Len(args)
    THEN [res |-> "macro expand arguments mismatched", text |-> "", macro |-> macro]
    ELSE [res |-> "ok", text |-> expand_text(macro, args, call_line, indent), macro |-> macro]

\* expand as it would be if only surplus arguments were rejected
expand_accepts_fewer(macro, args, call_line, indent) ==
    IF Len(macro.params) < Len(args)
    THEN [res |-> "macro expand arguments mismatched", text |-> "", macro |-> macro]
    ELSE [res |-> "ok", text |-> expand_text(macro, args, call_line, indent),
          macro |-> [macro EXCEPT !.expand_id = @ + 1]]

\* Macro.expand: res is "ok" with the text and the macro after the call, or
\* the fatal error
expand(macro, args, call_line, indent) ==
    IF Len(macro.params) # Len(args)
    THEN [res |-> "macro expand arguments mismatched", text |-> "", macro |-> macro]
    ELSE [res |-> "ok", text |-> expand_text(macro, args, call_line, indent),
          macro |-> [macro EXCEPT !.expand_id = @ + 1]]

(***************************************************************************)
(* App.compile_script: one run over an input file.  The input is not fixed *)
(* in advance: each step reads one more line, any line of Pool, until the  *)
(* end of input, which may come after any line up to MaxLines.             *)
(***************************************************************************)
\* The longest input, in lines
MaxLines == 6

\* The lines an input is made of, as fp.readlines() returns them
Pool == {
    "%macro f($a)\n",
    "%macro f($a,$a)\n",
    "%macro g()\n",
    "%macro g(a)\n",
    "%end\n",
    "  %call f($x)\n",
    "  %call g()\n",
    "  %call f()\n",
    "  %call f(1)\n",
    "%call f($x)\n",
    "%define N 1\n",
    "%define N 2\n",
    "$f = $a + N;\n"
}

\* What the loop body computes from a line alone: s = line.rstrip() and the
\* four matches tried on it, for every line of Pool
Matches ==
    [ln \in Pool |->
        [s |-> rstrip(ln),
         start |-> RE_MACRO_START(rstrip(ln)),
         end |-> RE_MACRO_END(rstrip(ln)),
         call |-> RE_MACRO_CALL(rstrip(ln)),
         define |-> RE_MACRO_DEFINE(rstrip(ln))]]

VARIABLES
    macros,         \* compile_script's macros: name -> Macro, the registry
    context,        \* compile_script's context: the output fragments so far
    current_macro,  \* None, or <<m>> for the Macro m under construction
    defines,        \* compile_script's defines, in insertion order
    verbose,        \* opts.verbose
    lineno,         \* the number of lines read
    line,           \* the line read last, "" before the first
    pc,             \* "run", "exit" after die (sys.exit), "done" after the write
    err,            \* None, or <<[msg, lineno]>> for the message die printed
    output,         \* the output file: the buffers written to it, in order
    expanded,       \* history: one record per call of Macro.expand, in order
    el,             \* ExpandSpec, SubstSpec: the line typed, and the macro it is the body of
    el_out          \* None, or the results: <<text>> of expand, <<once, twice>> of expand_defines

vars == <<macros, context, current_macro, defines, verbose, lineno, line, pc, err, output,
          expanded, el, el_out>>

None == <<>>

\* No macro, and the line before any token is typed
NoLine == [name |-> "", params |-> <<>>, expand_id |-> 0, line |-> "", ntok |-> 0]

\* The state when the loop starts.  The command line gives no pre-defines, so
\* _init_pre_defines returns the empty dict; -v may be given or not.
Init ==
    /\ el = NoLine
    /\ el_out = None
    /\ macros = <<>>
    /\ context = <<>>
    /\ current_macro = None
    /\ defines = <<>>
    /\ verbose \in BOOLEAN
    /\ lineno = 0
    /\ line = ""
    /\ pc = "run"
    /\ err = None
    /\ output = <<>>
    /\ expanded = <<>>

\* die as it would be if it printed the message and returned, as warning does
die_returns(msg, n) ==
    /\ pc' = pc
    /\ err' = <<[msg |-> msg, lineno |-> n]>>

\* die: the message goes to stderr and sys.exit(1) ends the run
die(msg, n) ==
    /\ pc' = "exit"
    /\ err' = <<[msg |-> msg, lineno |-> n]>>

\* The loop reads line number lineno + 1
Reads(ln) ==
    /\ pc = "run"
    /\ lineno < MaxLines
    /\ ln \in Pool
    /\ line' = ln
    /\ lineno' = lineno + 1
    /\ UNCHANGED <<el, el_out>>

\* The %macro branch as it would be without the test for a pending macro
MacroStart_nested(ln) ==
    LET m == Matches[ln].start
        pp == parse_params(m.sp)
    IN /\ Reads(ln)
       /\ m.ok
       /\ \/ /\ pp.res # "ok"
             /\ die(pp.res, lineno + 1)
             /\ UNCHANGED <<macros, context, current_macro, defines, verbose, output, expanded>>
          \/ /\ pp.res = "ok"
             /\ current_macro' = <<NewMacro(m.name, pp.params, verbose)>>
             /\ UNCHANGED <<macros, context, defines, verbose, pc, err, output, expanded>>

\* The %macro branch
MacroStart(ln) ==
    LET s == Matches[ln].s
        m == Matches[ln].start
        pp == parse_params(m.sp)
    IN /\ Reads(ln)
       /\ m.ok
       /\ \/ /\ current_macro # None
             /\ die("define nested macro", lineno + 1)
             /\ UNCHANGED <<macros, context, current_macro, defines, verbose, output, expanded>>
          \/ /\ current_macro = None
             /\ pp.res # "ok"
             /\ die(pp.res, lineno + 1)
             /\ UNCHANGED <<macros, context, current_macro, defines, verbose, output, expanded>>
          \/ /\ current_macro = None
             /\ pp.res = "ok"
             /\ current_macro' = <<NewMacro(m.name, pp.params, verbose)>>
             /\ UNCHANGED <<macros, context, defines, verbose, pc, err, output, expanded>>

\* The %end branch as it would be without the test for a registered name
MacroEnd_rebinds(ln) ==
    LET s == Matches[ln].s
    IN /\ Reads(ln)
       /\ ~Matches[ln].start.ok
       /\ Matches[ln].end.ok
       /\ \/ /\ current_macro = None
             /\ die("macro end is mismatched macro start", lineno + 1)
             /\ UNCHANGED <<macros, context, current_macro, defines, verbose, output, expanded>>
          \/ /\ current_macro # None
             /\ macros' = (current_macro[1].name :> current_macro[1]) @@ macros
             /\ current_macro' = None
             /\ UNCHANGED <<context, defines, verbose, pc, err, output, expanded>>

\* The %end branch
MacroEnd(ln) ==
    LET s == Matches[ln].s
    IN /\ Reads(ln)
       /\ ~Matches[ln].start.ok
       /\ Matches[ln].end.ok
       /\ \/ /\ current_macro = None
             /\ die("macro end is mismatched macro start", lineno + 1)
             /\ UNCHANGED <<macros, context, current_macro, defines, verbose, output, expanded>>
          \/ /\ current_macro # None
             /\ current_macro[1].name \in DOMAIN macros
             /\ die("found duplicated macro", lineno + 1)
             /\ UNCHANGED <<macros, context, current_macro, defines, verbose, output, expanded>>
          \/ /\ current_macro # None
             /\ current_macro[1].name \notin DOMAIN macros
             /\ macros' = macros @@ (current_macro[1].name :> current_macro[1])
             /\ current_macro' = None
             /\ UNCHANGED <<context, defines, verbose, pc, err, output, expanded>>

\* The history record of one call of expand
Expansion(macro, args, r, n) ==
    [macro |-> macro, args |-> args, var_prefix |-> _prefix(macro), res |-> r.res,
     text |-> r.text, lineno |-> n, inbody |-> current_macro # None]

\* The %call branch as it would be if every expansion went to the output buffer
MacroCall_to_context(ln) ==
    LET s == Matches[ln].s
        m == Matches[ln].call
        pp == parse_params(m.sp)
        r == expand(macros[m.name], pp.params, s, m.indent)
    IN /\ Reads(ln)
       /\ ~Matches[ln].start.ok
       /\ ~Matches[ln].end.ok
       /\ m.ok
       /\ \/ /\ pp.res # "ok"
             /\ die(pp.res, lineno + 1)
             /\ UNCHANGED <<macros, context, current_macro, defines, verbose, output, expanded>>
          \/ /\ pp.res = "ok"
             /\ current_macro # None
             /\ current_macro[1].name = m.name
             /\ die("forbidden to call function macro recursively", lineno + 1)
             /\ UNCHANGED <<macros, context, current_macro, defines, verbose, output, expanded>>
          \/ /\ pp.res = "ok"
             /\ ~(current_macro # None /\ current_macro[1].name = m.name)
             /\ m.name \notin DOMAIN macros
             /\ die("call an unknown macro", lineno + 1)
             /\ UNCHANGED <<macros, context, current_macro, defines, verbose, output, expanded>>
          \/ /\ pp.res = "ok"
             /\ ~(current_macro # None /\ current_macro[1].name = m.name)
             /\ m.name \in DOMAIN macros
             /\ r.res # "ok"
             /\ die(r.res, lineno + 1)
             /\ expanded' = Append(expanded, Expansion(macros[m.name], pp.params, r, lineno + 1))
             /\ UNCHANGED <<macros, context, current_macro, defines, verbose, output>>
          \/ /\ pp.res = "ok"
             /\ ~(current_macro # None /\ current_macro[1].name = m.name)
             /\ m.name \in DOMAIN macros
             /\ r.res = "ok"
             /\ macros' = [macros EXCEPT ![m.name] = r.macro]
             /\ context' = Append(context, r.text)
             /\ UNCHANGED current_macro
             /\ expanded' = Append(expanded, Expansion(macros[m.name], pp.params, r, lineno + 1))
             /\ UNCHANGED <<defines, verbose, pc, err, output>>

\* The %call branch
MacroCall(ln) ==
    LET s == Matches[ln].s
        m == Matches[ln].call
        pp == parse_params(m.sp)
        r == expand(macros[m.name], pp.params, s, m.indent)
    IN /\ Reads(ln)
       /\ ~Matches[ln].start.ok
       /\ ~Matches[ln].end.ok
       /\ m.ok
       /\ \/ /\ pp.res # "ok"
             /\ die(pp.res, lineno + 1)
             /\ UNCHANGED <<macros, context, current_macro, defines, verbose, output, expanded>>
          \/ /\ pp.res = "ok"
             /\ current_macro # None
             /\ current_macro[1].name = m.name
             /\ die("forbidden to call function macro recursively", lineno + 1)
             /\ UNCHANGED <<macros, context, current_macro, defines, verbose, output, expanded>>
          \/ /\ pp.res = "ok"
             /\ ~(current_macro # None /\ current_macro[1].name = m.name)
             /\ m.name \notin DOMAIN macros
             /\ die("call an unknown macro", lineno + 1)
             /\ UNCHANGED <<macros, context, current_macro, defines, verbose, output, expanded>>
          \/ /\ pp.res = "ok"
             /\ ~(current_macro # None /\ current_macro[1].name = m.name)
             /\ m.name \in DOMAIN macros
             /\ r.res # "ok"
             /\ die(r.res, lineno + 1)
             /\ expanded' = Append(expanded, Expansion(macros[m.name], pp.params, r, lineno + 1))
             /\ UNCHANGED <<macros, context, current_macro, defines, verbose, output>>
          \/ /\ pp.res = "ok"
             /\ ~(current_macro # None /\ current_macro[1].name = m.name)
             /\ m.name \in DOMAIN macros
             /\ r.res = "ok"
             /\ macros' = [macros EXCEPT ![m.name] = r.macro]
             /\ IF current_macro = None
                THEN context' = Append(context, r.text) /\ UNCHANGED current_macro
                ELSE current_macro' = <<add(current_macro[1], r.text)>> /\ UNCHANGED context
             /\ expanded' = Append(expanded, Expansion(macros[m.name], pp.params, r, lineno + 1))
             /\ UNCHANGED <<defines, verbose, pc, err, output>>

\* The %define branch as it would be without its continue: the line goes on
\* to the fallback
Define_copies(ln) ==
    LET s == Matches[ln].s
        m == Matches[ln].define
    IN /\ Reads(ln)
       /\ ~Matches[ln].start.ok
       /\ ~Matches[ln].end.ok
       /\ ~Matches[ln].call.ok
       /\ m.ok
       /\ defines' = SetDefine(defines, m.name, m.value)
       /\ IF current_macro = None
          THEN context' = Append(context, ln) /\ UNCHANGED current_macro
          ELSE current_macro' = <<add(current_macro[1], ln)>> /\ UNCHANGED context
       /\ UNCHANGED <<macros, verbose, pc, err, output, expanded>>

\* The %define branch
Define(ln) ==
    LET s == Matches[ln].s
        m == Matches[ln].define
    IN /\ Reads(ln)
       /\ ~Matches[ln].start.ok
       /\ ~Matches[ln].end.ok
       /\ ~Matches[ln].call.ok
       /\ m.ok
       /\ defines' = SetDefine(defines, m.name, m.value)
       /\ UNCHANGED <<macros, context, current_macro, verbose, pc, err, output, expanded>>

\* The fallback as it would be if a macro body took the line as read
Plain_verbatim(ln) ==
    LET new_line == expand_defines(ln, defines)
    IN /\ Reads(ln)
       /\ ~Matches[ln].start.ok
       /\ ~Matches[ln].end.ok
       /\ ~Matches[ln].call.ok
       /\ ~Matches[ln].define.ok
       /\ IF current_macro = None
          THEN /\ context' = IF Len(strip(new_line)) # 0 THEN Append(context, new_line) ELSE context
               /\ UNCHANGED current_macro
          ELSE /\ current_macro' = <<add(current_macro[1], ln)>>
               /\ UNCHANGED context
       /\ UNCHANGED <<macros, defines, verbose, pc, err, output, expanded>>

\* The fallback: a plain line
Plain(ln) ==
    LET s == Matches[ln].s
        new_line == expand_defines(ln, defines)
    IN /\ Reads(ln)
       /\ ~Matches[ln].start.ok
       /\ ~Matches[ln].end.ok
       /\ ~Matches[ln].call.ok
       /\ ~Matches[ln].define.ok
       /\ IF current_macro = None
          THEN /\ context' = IF Len(strip(new_line)) # 0 THEN Append(context, new_line) ELSE context
               /\ UNCHANGED current_macro
          ELSE /\ current_macro' = <<add(current_macro[1], new_line)>>
               /\ UNCHANGED context
       /\ UNCHANGED <<macros, defines, verbose, pc, err, output, expanded>>

\* The end of the input: the loop is over, the buffer is written
Finish ==
    /\ pc = "run"
    /\ output' = Append(output, Join(context))
    /\ pc' = "done"
    /\ UNCHANGED <<macros, context, current_macro, defines, verbose, lineno, line, err, expanded,
                   el, el_out>>

Next ==
    \/ \E ln \in Pool : MacroStart(ln)
    \/ \E ln \in Pool : MacroEnd(ln)
    \/ \E ln \in Pool : MacroCall(ln)
    \/ \E ln \in Pool : Define(ln)
    \/ \E ln \in Pool : Plain(ln)
    \/ Finish

Spec == Init /\ [][Next]_vars

(***************************************************************************)
(* Macro.expand on its own: a macro of any name in MacroNames, any         *)
(* parameter list in ParamLists and any counter up to MaxExpandId, whose   *)
(* body is one line typed token by token, is expanded once.                *)
(***************************************************************************)
\* The most tokens in the body line
MaxTokens == 5

\* The largest expansion counter
MaxExpandId == 2

MacroNames == {"f", "a"}

\* The parameter lists parse_params gave Macro.__init__
ParamLists == {<<>>, <<"$a">>}

\* The pieces a body line is typed from
Tokens == {"$f", "$a", "x", "$"}

ExpandInit ==
    /\ el \in [name : MacroNames, params : ParamLists, expand_id : 0..MaxExpandId,
                line : {""}, ntok : {0}]
    /\ el_out = None
    /\ macros = <<>>
    /\ context = <<>>
    /\ current_macro = None
    /\ defines = <<>>
    /\ verbose = FALSE
    /\ lineno = 0
    /\ line = ""
    /\ pc = "run"
    /\ err = None
    /\ output = <<>>
    /\ expanded = <<>>

\* The variables of compile_script, which ExpandSpec leaves alone
run_vars == <<macros, context, current_macro, defines, verbose, lineno, line, pc, err, output,
              expanded>>

\* One more token of the body line
Type(tok) ==
    /\ el_out = None
    /\ el.ntok < MaxTokens
    /\ el' = [el EXCEPT !.line = @ \o tok, !.ntok = @ + 1]
    /\ UNCHANGED <<el_out, run_vars>>

\* The macro as Macro.__init__ and Macro.add leave it, after el.expand_id calls
ExpandMacro ==
    [add(NewMacro(el.name, el.params, verbose), el.line) EXCEPT !.expand_id = el.expand_id]

\* The arguments of the call: $x for every parameter
ExpandArgs == [i \in 1..Len(el.params) |-> "$x"]

\* expand is called as the %call branch calls it, with as many arguments as
\* the macro has parameters
Expand ==
    /\ el_out = None
    /\ el_out' = <<expand(ExpandMacro, ExpandArgs,
                          "  %call " \o el.name \o "(" \o Join(ExpandArgs) \o ")", "  ").text>>
    /\ UNCHANGED <<el, run_vars>>

ExpandNext ==
    \/ \E tok \in Tokens : Type(tok)
    \/ Expand

ExpandSpec == ExpandInit /\ [][ExpandNext]_vars

(***************************************************************************)
(* App.expand_defines on its own: a table of up to MaxDefs constants is    *)
(* built as the %define branch builds it, a line is typed token by token,  *)
(* and expand_defines is applied to the line, and again to its result.     *)
(***************************************************************************)
\* The most constants in the table
MaxDefs == 2

\* The most tokens in the line
MaxSubstTokens == 3

\* The names and the values of the constants
DefNames == {"A", "B", "AB"}

DefValues == {"A", "B", "1"}

\* The pieces the line is typed from
SubstTokens == {"A", "B", "1"}

SubstInit ==
    /\ el = NoLine
    /\ el_out = None
    /\ macros = <<>>
    /\ context = <<>>
    /\ current_macro = None
    /\ defines = <<>>
    /\ verbose = FALSE
    /\ lineno = 0
    /\ line = ""
    /\ pc = "run"
    /\ err = None
    /\ output = <<>>
    /\ expanded = <<>>

\* The variables SubstSpec leaves alone
subst_frame == <<macros, context, current_macro, verbose, lineno, line, pc, err, output, expanded>>

\* defines[name] = value, as the %define branch does it
SubstDefine(name, value) ==
    /\ el_out = None
    /\ Len(SetDefine(defines, name, value)) <= MaxDefs
    /\ defines' = SetDefine(defines, name, value)
    /\ UNCHANGED <<el, el_out, subst_frame>>

\* One more token of the line
SubstType(tok) ==
    /\ el_out = None
    /\ el.ntok < MaxSubstTokens
    /\ el' = [el EXCEPT !.line = @ \o tok, !.ntok = @ + 1]
    /\ UNCHANGED <<el_out, defines, subst_frame>>

\* new_line = self.expand_defines(line, defines), and the same call on new_line
Substitute ==
    /\ el_out = None
    /\ el_out' = <<expand_defines(el.line, defines),
                   expand_defines(expand_defines(el.line, defines), defines)>>
    /\ UNCHANGED <<el, defines, subst_frame>>

SubstNext ==
    \/ \E name \in DefNames, value \in DefValues : SubstDefine(name, value)
    \/ \E tok \in SubstTokens : SubstType(tok)
    \/ Substitute

SubstSpec == SubstInit /\ [][SubstNext]_vars

(***************************************************************************)
(* The properties.                                                         *)
(***************************************************************************)
\* The successful calls of expand, as indices of the history
Expanded == {i \in 1..Len(expanded) : expanded[i].res = "ok"}

\* The identifier a reference $v is renamed to by the expansion e
Renamed(e, v) == "$" \o e.var_prefix \o v

\* A %call directive as the input format describes it: RE_MACRO_CALL with
\* any indentation, none included
CallLine(s) == RE_MACRO_CALL(" " \o s)

\* CallLine for every line of Pool
CallLines == [ln \in Pool |-> CallLine(rstrip(ln))]

\* A directive line of the input format
Directive(s) ==
    \/ RE_MACRO_START(s).ok
    \/ RE_MACRO_END(s).ok
    \/ RE_MACRO_DEFINE(s).ok
    \/ CallLine(s).ok

\* text.splitlines()
RECURSIVE SplitLines(_)
SplitLines(text) ==
    LET j == Find(text, 1, "\n")
    IN IF text = "" THEN <<>>
       ELSE IF j > Len(text) THEN <<text>>
       ELSE <<SubSeq(text, 1, j - 1)>> \o SplitLines(From(text, j + 1))

\* This step read a line
ReadStep == lineno' = lineno + 1

\* ExpandSpec: the lines of the text expand returned
ExpandLines == SplitLines(el_out[1])

\* ExpandSpec: the expanded body line, which follows one binding line per parameter
BodyOut == IF Len(ExpandLines) > Len(el.params) THEN ExpandLines[Len(el.params) + 1] ELSE ""

\* C1: two distinct successful expand calls of the same macro, from top level
\* or from inside a macro body under construction, use different hygiene
\* prefixes.
C1_PrefixesOfOneMacroDiffer ==
    \A i, j \in Expanded :
        (i # j /\ expanded[i].macro.name = expanded[j].macro.name)
            => expanded[i].var_prefix # expanded[j].var_prefix

\* One macro expanded from inside a macro body and again at top level
C1_Witness ==
    \E i, j \in Expanded :
        /\ i # j
        /\ expanded[i].macro.name = expanded[j].macro.name
        /\ expanded[i].inbody
        /\ ~expanded[j].inbody

\* C2: two distinct expansions never rename the same reference $v to the same
\* identifier, also when they are calls of two different macros.
C2_NoCollision ==
    \A i, j \in Expanded :
        i # j => \A v \in {"a", "x"} : Renamed(expanded[i], v) # Renamed(expanded[j], v)

\* C3: a run that raised a fatal error never writes the output; the output is
\* written at most once, as the whole buffer, after the last line was
\* processed without a fatal error.
C3_NoOutputOnFatal ==
    /\ err # None => output = <<>>
    /\ Len(output) <= 1
    /\ output # <<>> => (pc = "done" /\ output[1] = Join(context))

\* A fatal error after output fragments were buffered
C3_Witness == err # None /\ pc = "exit" /\ Len(context) >= 2 /\ output = <<>>

\* C4: when the input ends in InMacroBody the run ends in a fatal error and
\* no output is written.
C4_UnterminatedMacroIsFatal == current_macro # None => (output = <<>> /\ pc # "done")

\* C5: a %call (with a well-formed argument list) is expanded only if its
\* macro is registered, and every %call of a name that is not registered ends
\* the run with the unknown-macro error.
C5_UnknownMacroIsFatal ==
    [][(/\ ReadStep
        /\ CallLines[line'].ok
        /\ parse_params(CallLines[line'].sp).res = "ok")
          => LET name == CallLines[line'].name
             IN /\ Len(expanded') > Len(expanded) => name \in DOMAIN macros
                /\ name \notin DOMAIN macros
                       => (pc' = "exit" /\ err' # None /\ err'[1].msg = "call an unknown macro")]_vars

\* C6: after a successful run no line of the output is a directive line:
\* every %define, %macro, %end and %call line is gone.
C6_NoDirectiveInOutput ==
    pc = "done" =>
        \A i \in 1..Len(SplitLines(output[1])) : ~Directive(rstrip(SplitLines(output[1])[i]))

\* C7: expand ends in the fatal argument error exactly when the number of
\* arguments differs from the number of formal parameters, and returns the
\* expansion text otherwise.
C7_FatalIffCountsDiffer ==
    \A i \in 1..Len(expanded) :
        /\ expanded[i].res = "ok" <=> Len(expanded[i].args) = Len(expanded[i].macro.params)
        /\ expanded[i].res # "ok" =>
               /\ i = Len(expanded)
               /\ pc = "exit"
               /\ err = <<[msg |-> "macro expand arguments mismatched", lineno |-> expanded[i].lineno]>>

\* expand has returned text for equal counts and has died on unequal counts
C7_Witness ==
    /\ \E i \in Expanded : Len(expanded[i].args) = 1 /\ expanded[i].text # ""
    /\ \E i \in 1..Len(expanded) : expanded[i].res # "ok" /\ Len(expanded[i].args) = 0

\* C8: every reference to the macro's own name in a body line is still a
\* reference to that name in the text of the expansion, at the same place among
\* the references, whatever its position in the line and whatever the counter.
C8_SelfNameIsKept ==
    el_out # None =>
        LET out == BodyOut
            rin == RE_SUB_PARAM(el.line, 1)
            rout == RE_SUB_PARAM(out, 1)
        IN /\ Len(rout) = Len(rin)
           /\ \A i \in 1..Len(rin) :
                  rin[i].var = el.name =>
                      /\ rout[i].var = el.name
                      /\ SubSeq(out, rout[i].start, rout[i].end - 1) = "$" \o el.name

\* $f first, last and between renamed references, the counter not 0
C8_Witness ==
    /\ el_out # None
    /\ el.name = "f"
    /\ el.line = "$f$a$f$a$f"
    /\ el.expand_id > 0
    /\ el_out[1] # el.line

\* C9: a %call (with a well-formed argument list) of the macro under
\* construction ends the run with the fatal self-recursion error, whether or
\* not the name is registered.
C9_SelfCallIsFatal ==
    [][(/\ ReadStep
        /\ current_macro # None
        /\ CallLines[line'].ok
        /\ parse_params(CallLines[line'].sp).res = "ok"
        /\ CallLines[line'].name = current_macro[1].name)
          => (/\ pc' = "exit"
              /\ err' # None
              /\ err'[1].msg = "forbidden to call function macro recursively")]_vars

\* C10: the registry never rebinds a name: a registered macro keeps its
\* name, parameters and body and its counter never goes back; the %macro line
\* that repeats a registered name is accepted, and the %end that closes it ends
\* the run with the duplicate-macro error at that line, the registry unchanged.
C10_RegistryNeverRebinds ==
    [][/\ \A n \in DOMAIN macros :
              /\ n \in DOMAIN macros'
              /\ macros'[n].name = macros[n].name
              /\ macros'[n].params = macros[n].params
              /\ macros'[n].lines = macros[n].lines
              /\ macros'[n].expand_id >= macros[n].expand_id
       /\ (/\ ReadStep
           /\ current_macro = None
           /\ LET m == Matches[line'].start
              IN m.ok /\ m.name \in DOMAIN macros /\ parse_params(m.sp).res = "ok")
             => (pc' = "run" /\ err' = None /\ current_macro' # None)
       /\ (/\ ReadStep
           /\ current_macro # None
           /\ current_macro[1].name \in DOMAIN macros
           /\ ~Matches[line'].start.ok
           /\ Matches[line'].end.ok)
             => (/\ pc' = "exit"
                 /\ err' = <<[msg |-> "found duplicated macro", lineno |-> lineno']>>
                 /\ macros' = macros)]_vars

\* The second %end of a name has ended the run, the first macro having been
\* expanded before
C10_Witness ==
    /\ pc = "exit"
    /\ err # None
    /\ err[1].msg = "found duplicated macro"
    /\ current_macro # None
    /\ macros[current_macro[1].name].expand_id > 0

\* The macros created so far: the registered ones and the one under
\* construction
Created == {macros[n] : n \in DOMAIN macros} \cup {current_macro[i] : i \in DOMAIN current_macro}

\* C11: a %macro line that names a parameter twice ends the run in a fatal
\* error, so the formal parameters of every macro created are pairwise
\* distinct.
C11_ParametersAreDistinct ==
    \A m \in Created :
        \A i, j \in 1..Len(m.params) : i # j => m.params[i] # m.params[j]

\* k occurs in s as a substring
Occurs(k, s) == \E j \in 1..(Len(s) - Len(k) + 1) : StartsAt(s, j, k)

\* The characters of s
Chars(s) == {Ch(s, i) : i \in 1..Len(s)}

\* No constant name occurs as a substring of any constant value
NoNameInValue ==
    \A i, j \in 1..Len(defines) : ~Occurs(defines[i].k, defines[j].v)

\* No constant name has a character in common with any constant value
NoSharedChar ==
    \A i, j \in 1..Len(defines) : Chars(defines[i].k) \cap Chars(defines[j].v) = {}

\* C12 as stated: when no constant name occurs as a substring of any constant
\* value, substituting the substituted line again changes nothing.
C12_IdempotentNoNameInValue ==
    (el_out # None /\ NoNameInValue) => el_out[2] = el_out[1]

\* C12: when no constant name has a character in common with any constant
\* value, substituting the substituted line again changes nothing.
C12_IdempotentNoSharedChar ==
    (el_out # None /\ NoSharedChar) => el_out[2] = el_out[1]

\* Two constants without a shared character, both replaced in the line
C12_Witness ==
    /\ el_out # None
    /\ NoSharedChar
    /\ Len(defines) = 2
    /\ \A i \in 1..2 : Occurs(defines[i].k, el.line)
    /\ el.line = "ABA"
    /\ el_out[1] = "111"
    /\ el_out[2] = "111"

\* One non-recursive pass over s for the constants defs, in insertion
\* order: the occurrences of the first name are replaced from left to right,
\* and the later constants are replaced in the text between them only, so no
\* character of a value put into the line is part of a later replacement.
RECURSIVE SinglePass(_, _)
SinglePass(s, defs) ==
    IF defs = <<>> THEN s
    ELSE LET k == Head(defs).k
             hits == {j \in 1..(Len(s) - Len(k) + 1) : StartsAt(s, j, k)}
             j == CHOOSE h \in hits : \A g \in hits : h <= g
         IN IF hits = {} THEN SinglePass(s, Tail(defs))
            ELSE SinglePass(SubSeq(s, 1, j - 1), Tail(defs)) \o Head(defs).v
                     \o SinglePass(From(s, j + Len(k)), defs)

\* No constant's name has a character in common with the value of a constant
\* inserted before it
LaterNamesAvoidEarlierValues ==
    \A i, j \in 1..Len(defines) :
        i < j => Chars(defines[j].k) \cap Chars(defines[i].v) = {}

\* C13 as stated: the result of substitute is the result of one non-recursive
\* pass, in which no text introduced as a constant's value is replaced by
\* another constant, whatever the insertion order.
C13_SinglePassAnyOrder ==
    el_out # None => el_out[1] = SinglePass(el.line, defines)

\* C13: the constants are replaced one after another in insertion order, each
\* in the whole line as the earlier ones left it.  When no name has a
\* character in common with the value of a constant inserted before it, the
\* result is that of one non-recursive pass: no introduced text is replaced by
\* the same constant or by one inserted earlier.  Introduced text can be
\* replaced by a constant inserted later: a line that is the name of the first
\* of two constants, whose value is the name of the second, becomes the value
\* of the second.
C13_SinglePassUnlessLaterName ==
    el_out # None =>
        /\ LaterNamesAvoidEarlierValues => el_out[1] = SinglePass(el.line, defines)
        /\ (/\ Len(defines) = 2
            /\ defines[1].v = defines[2].k
            /\ el.line = defines[1].k) => el_out[1] = defines[2].v

\* The value "B" of the later constant A is put into the line and stays,
\* though B is the name of the earlier constant
C13_Witness ==
    /\ el_out # None
    /\ defines = <<[k |-> "B", v |-> "1"], [k |-> "A", v |-> "B"]>>
    /\ el.line = "AB"
    /\ el_out[1] = "B1"

\* The driver state is InMacroBody: a macro is under construction
InMacroBody == current_macro # None

\* C14: a step that changes the driver state reads a %macro line in TopLevel
\* or a %end line in InMacroBody; a %macro line read in InMacroBody ends the
\* run and leaves the pending macro as it was, a %end line read in TopLevel
\* ends the run, and every other line leaves the driver state as it was.
C14_OnlyMacroAndEndChangeState ==
    [][ReadStep =>
          /\ (InMacroBody' # InMacroBody) =>
                 \/ ~InMacroBody /\ Matches[line'].start.ok
                 \/ InMacroBody /\ Matches[line'].end.ok
          /\ (InMacroBody /\ Matches[line'].start.ok) =>
                 /\ pc' = "exit"
                 /\ err' = <<[msg |-> "define nested macro", lineno |-> lineno']>>
                 /\ current_macro' = current_macro
          /\ (~InMacroBody /\ Matches[line'].end.ok) =>
                 /\ pc' = "exit"
                 /\ ~InMacroBody'
          /\ (~Matches[line'].start.ok /\ ~Matches[line'].end.ok) =>
                 InMacroBody' = InMacroBody]_vars

\* A %macro line was read while a macro with a body line was pending
C14_Witness ==
    /\ pc = "exit"
    /\ err # None
    /\ err[1].msg = "define nested macro"
    /\ Matches[line].start.ok
    /\ InMacroBody
    /\ current_macro[1].lines # <<>>

\* The line read by this step is a plain line for compile_script: none of
\* its four patterns matches
PlainRead ==
    /\ ReadStep
    /\ ~Matches[line'].start.ok
    /\ ~Matches[line'].end.ok
    /\ ~Matches[line'].call.ok
    /\ ~Matches[line'].define.ok

\* This step called expand, which returned a text
ExpandStep == Len(expanded') = Len(expanded) + 1 /\ expanded'[Len(expanded')].res = "ok"

\* The body lines of the macro of the expansion e, renamed as that expansion
\* renames them
RenamedBody(e) ==
    Join([i \in 1..Len(e.macro.lines) |-> _expand_line(e.macro, e.macro.lines[i], e.var_prefix)])

\* C15 as stated: a plain line read while a macro is under construction is
\* appended to the body of that macro as it was read.
C15_BodyLineStoredVerbatim ==
    [][(PlainRead /\ InMacroBody) =>
          current_macro'[1].lines = Append(current_macro[1].lines, line')]_vars

\* C15: a plain line read while a macro is under construction is appended to
\* the body of that macro after the constants defined so far are substituted
\* into it, and an expansion of a macro contains its stored body lines with
\* the references renamed and nothing else changed: the constants in the
\* expansion have the values they had when the body line was read.
C15_BodyLineSubstitutedWhenRead ==
    [][/\ (PlainRead /\ InMacroBody) =>
              current_macro'[1].lines
                  = Append(current_macro[1].lines, expand_defines(line', defines))
       /\ ExpandStep =>
              LET e == expanded'[Len(expanded')]
              IN /\ e.macro = macros[e.macro.name]
                 /\ Occurs(RenamedBody(e), e.text)]_vars

\* N is 1 when the body line of f is read and 2 when f is called: the
\* expansion has 1
C15_Witness ==
    /\ pc = "run"
    /\ defines = <<[k |-> "N", v |-> "2"]>>
    /\ expanded # <<>>
    /\ expanded[Len(expanded)].lineno = lineno
    /\ expanded[Len(expanded)].res = "ok"
    /\ Occurs("+ 1;", expanded[Len(expanded)].text)

\* The text of reference j among the references r of s, with its sigil
RefText(s, r, j) == SubSeq(s, r[j].start, r[j].end - 1)

\* ExpandSpec: the identifier that the binding statement of parameter i
\* assigns: the first reference in line i of the expansion
Bound(i) ==
    LET l == ExpandLines[i]
    IN RefText(l, RE_SUB_PARAM(l, 1), 1)

\* C16 as stated: every reference to a formal parameter in the body line is
\* rewritten to the identifier the binding statement of that parameter
\* assigns, also when the parameter has the name of the macro.
C16_ReferencesAreBound ==
    el_out # None =>
        LET out == BodyOut
            rin == RE_SUB_PARAM(el.line, 1)
            rout == RE_SUB_PARAM(out, 1)
        IN \A i \in 1..Len(el.params) :
               LET bound == Bound(i)
               IN \A j \in 1..Len(rin) :
                      RefText(el.line, rin, j) = el.params[i] => RefText(out, rout, j) = bound

\* C16: every reference to a formal parameter in the body line is rewritten
\* to the identifier the binding statement of that parameter assigns, unless
\* the parameter has the name of the macro: then the binding statement
\* assigns the prefixed identifier and the references stay as they are.
C16_ReferencesAreBoundUnlessSelfName ==
    el_out # None =>
        LET out == BodyOut
            rin == RE_SUB_PARAM(el.line, 1)
            rout == RE_SUB_PARAM(out, 1)
        IN \A i \in 1..Len(el.params) :
               LET bound == Bound(i)
               IN /\ bound = "$" \o _prefix(ExpandMacro) \o From(el.params[i], 2)
                  /\ \A j \in 1..Len(rin) :
                         RefText(el.line, rin, j) = el.params[i] =>
                             RefText(out, rout, j) = IF el.params[i] = "$" \o el.name
                                                     THEN el.params[i]
                                                     ELSE bound

\* Macro f with parameter $a, expanded for the second time: both references
\* to $a are rewritten to the identifier bound
C16_Witness ==
    /\ el_out # None
    /\ el.name = "f"
    /\ el.params = <<"$a">>
    /\ el.expand_id = 1
    /\ el.line = "$ax$f$a"
    /\ el_out[1] = "  $__m1_a = $x;\n$__m1_ax$f$__m1_a"

\* ExpandSpec: the text of s between reference j - 1 and reference j of its
\* references r; before the first for j = 1, after the last for j = Len(r) + 1
Between(s, r, j) ==
    SubSeq(s, IF j = 1 THEN 1 ELSE r[j - 1].end,
              IF j = Len(r) + 1 THEN Len(s) ELSE r[j].start - 1)

\* C17: the expanded body line has as many references as the body line; every
\* reference whose identifier is not the name of the macro has become
\* $<prefix>identifier, parameter or not; and the text before, between and
\* after the references is the same, in the same order.
C17_EveryOtherReferenceIsPrefixed ==
    el_out # None =>
        LET out == BodyOut
            rin == RE_SUB_PARAM(el.line, 1)
            rout == RE_SUB_PARAM(out, 1)
            var_prefix == _prefix(ExpandMacro)
        IN /\ Len(rout) = Len(rin)
           /\ \A j \in 1..Len(rin) :
                  rin[j].var # el.name =>
                      SubSeq(out, rout[j].start, rout[j].end - 1) = "$" \o var_prefix \o rin[j].var
           /\ \A j \in 1..(Len(rin) + 1) :
                  Between(out, rout, j) = Between(el.line, rin, j)

\* Macro f without parameters: $a and $ax, no parameters, are prefixed,
\* and the "$" and the "x" that are no references are copied
C17_Witness ==
    /\ el_out # None
    /\ el.name = "f"
    /\ el.params = <<>>
    /\ el.expand_id = 2
    /\ el.line = "$$ax$f$a"
    /\ el_out[1] = "$$__m2_ax$f$__m2_a"

\* The line read by this step is a %call, with as many valid arguments as it
\* has parameters, to the registered macro b, which is not the pending one
NestedCall(b) ==
    /\ ReadStep
    /\ InMacroBody
    /\ ~Matches[line'].start.ok
    /\ ~Matches[line'].end.ok
    /\ Matches[line'].call.ok
    /\ Matches[line'].call.name = b
    /\ b \in DOMAIN macros
    /\ b # current_macro[1].name
    /\ LET pp == parse_params(Matches[line'].call.sp)
       IN pp.res = "ok" /\ Len(pp.params) = Len(macros[b].params)

\* C18: a %call to the registered macro B read while macro A is under
\* construction calls expand of B once in that step: one record of B is added
\* to the history, the counter of B has increased by one, the text is appended
\* to the body of A and the output buffer is as it was.  A step calls expand at
\* most once, and a step that expands a macro leaves the counter of every other
\* macro as it was, so an expansion of A does not expand B again.
C18_NestedCallExpandsOnce ==
    [][/\ \A b \in DOMAIN macros :
              NestedCall(b) =>
                  /\ pc' = "run"
                  /\ Len(expanded') = Len(expanded) + 1
                  /\ LET e == expanded'[Len(expanded')]
                     IN /\ e.macro = macros[b]
                        /\ e.res = "ok"
                        /\ e.lineno = lineno'
                        /\ current_macro' = <<add(current_macro[1], e.text)>>
                  /\ macros'[b].expand_id = macros[b].expand_id + 1
                  /\ context' = context
       /\ \/ expanded' = expanded
          \/ /\ Len(expanded') = Len(expanded) + 1
             /\ SubSeq(expanded', 1, Len(expanded)) = expanded
       /\ ExpandStep =>
              \A n \in DOMAIN macros :
                  n # expanded'[Len(expanded')].macro.name => macros'[n] = macros[n]]_vars

\* g was expanded once, into the body of f, and f was then expanded at top
\* level: the counter of g is still 1 and the output has the text of g from f
C18_Witness ==
    /\ pc = "run"
    /\ Len(expanded) = 2
    /\ expanded[1].macro.name = "g" /\ expanded[1].inbody /\ expanded[1].res = "ok"
    /\ expanded[2].macro.name = "f" /\ ~expanded[2].inbody /\ expanded[2].res = "ok"
    /\ expanded[2].macro.lines = <<expanded[1].text>>
    /\ macros["g"].expand_id = 1
    /\ context = <<expanded[2].text>>

\* C19: a registered macro stays registered with the name, the parameters and
\* the body lines it was registered with; its counter is 0 when it is
\* registered and afterwards changes only by increasing by one in a step in
\* which expand of that macro returned a text.
C19_RegisteredMacroChangesOnlyItsCounter ==
    [][/\ DOMAIN macros \subseteq DOMAIN macros'
       /\ \A n \in DOMAIN macros' :
              IF n \in DOMAIN macros
              THEN /\ macros'[n].name = macros[n].name
                   /\ macros'[n].params = macros[n].params
                   /\ macros'[n].lines = macros[n].lines
                   /\ macros'[n].expand_id =
                          IF ExpandStep /\ expanded'[Len(expanded')].macro.name = n
                          THEN macros[n].expand_id + 1
                          ELSE macros[n].expand_id
              ELSE /\ Matches[line'].end.ok
                   /\ current_macro # None
                   /\ macros'[n] = current_macro[1]
                   /\ macros'[n].name = n
                   /\ macros'[n].expand_id = 0]_vars

\* A macro with a body line, expanded twice since it was registered
C19_Witness ==
    \E n \in DOMAIN macros :
        /\ macros[n].expand_id = 2
        /\ macros[n].lines # <<>>
        /\ Len(expanded) = 2
        /\ \A i \in 1..2 : expanded[i].macro.name = n /\ expanded[i].macro.lines = macros[n].lines

\* The line read by this step is a %define directive
DefineRead == ReadStep /\ Matches[line'].define.ok

\* C20: a step that reads a %define line, in TopLevel or in InMacroBody, sets
\* the name to the value in the constant table, the value of a name already
\* defined being overwritten and the run going on, and leaves the driver
\* state, the output buffer, the body of the pending macro, the registry and
\* every counter as they were.
C20_DefineChangesOnlyConstants ==
    [][DefineRead =>
          /\ defines' = SetDefine(defines, Matches[line'].define.name, Matches[line'].define.value)
          /\ pc' = "run"
          /\ err' = err
          /\ current_macro' = current_macro
          /\ context' = context
          /\ output' = output
          /\ macros' = macros
          /\ expanded' = expanded]_vars

\* N, which was 1 when the body line of the pending macro was read, has been
\* redefined as 2 inside the macro body
C20_Witness ==
    /\ pc = "run"
    /\ line = "%define N 2\n"
    /\ defines = <<[k |-> "N", v |-> "2"]>>
    /\ InMacroBody
    /\ current_macro[1].lines = <<"$f = $a + 1;\n">>

====
